---- MODULE Spec2Model ----
(***************************************************************************)
(* Model of src/software/utils/main_colorCheckerDetection.cpp              *)
(* (AliceVision colorCheckerDetection).                                    *)
(*                                                                         *)
(* Two specifications share this module:                                   *)
(*   Spec      one run of aliceVision_main over an SfM scene;              *)
(*   QuadSpec  the life of one ccheckerSVG::Quad object: construction      *)
(*             from a point list, transform calls, copies pushed into a    *)
(*             vector.                                                     *)
(*                                                                         *)
(* A float is modelled as an exact rational [n, d] in lowest terms with    *)
(* d > 0, or one of the IEEE-754 specials +Inf = [1,0], -Inf = [-1,0],     *)
(* NaN = [0,0].  Rounding and overflow of finite values are not modelled.  *)
(* A std::string is a sequence of one-character strings.                   *)
(***************************************************************************)
EXTENDS Integers, Sequences, FiniteSets, TLC

VARIABLES
    \* ---- aliceVision_main ----
    pc,              \* "start", "resolve", "views", "done" ("idle" in QuadSpec)
    exitCode,        \* "none", "EXIT_SUCCESS", "EXIT_FAILURE"
    logError,        \* class of the last ALICEVISION_LOG_ERROR / CERR message
    argsOutcome,     \* outcome of the command-line parsing
    inputExpression, \* --input
    loadOk,          \* whether sfmDataIO::Load succeeds on inputExpression
    debug,           \* --debug
    views,           \* sfmData.getViews(), in iteration order
    viewIdx,         \* position of the for loop over the views
    colorFile,       \* content of the file at outputColorData
    svgFiles,        \* content of <outputFolder>/<stem>.svg, per image stem
    jpgFiles,        \* stems whose <outputFolder>/<stem>.jpg was written
    refQuads,        \* Quads of the last draw() as handed to transform
    \* ---- one Quad object ----
    qInput,          \* the point list given to the constructor
    quad,            \* the Quad object (NoQuad before construction)
    qExit,           \* "none", or "EXIT_FAILURE" once the constructor exited
    quadsToDraw,     \* copies of the Quad pushed into a vector
    qMatrix,         \* argument of the last transform call
    nTransform       \* number of transform calls so far

progVars == <<pc, exitCode, logError, argsOutcome, inputExpression, loadOk,
              debug, views, viewIdx, colorFile, svgFiles, jpgFiles, refQuads>>
quadVars == <<qInput, quad, qExit, quadsToDraw, qMatrix, nTransform>>
vars == <<progVars, quadVars>>

----------------------------------------------------------------------------
(* Bounds of the model *)

MaxViews == 2        \* views in the scene
MaxPoints == 5       \* length of a point list given to the Quad constructor
MaxTransform == 2    \* transform calls on one Quad
MaxPush == 1         \* copies of one Quad pushed into the vector

----------------------------------------------------------------------------
(* float arithmetic *)

Abs(i) == IF i < 0 THEN -i ELSE i
Sign(i) == IF i < 0 THEN -1 ELSE IF i > 0 THEN 1 ELSE 0

RECURSIVE GCD(_, _)
GCD(a, b) == IF b = 0 THEN a ELSE GCD(b, a % b)

Norm(n, d) ==
    IF d = 0 THEN [n |-> Sign(n), d |-> 0]
    ELSE LET g == GCD(Abs(n), Abs(d))
             s == IF d < 0 THEN -1 ELSE 1
         IN  [n |-> s * (n \div g), d |-> Abs(d) \div g]

F(i) == [n |-> i, d |-> 1]
NaN == [n |-> 0, d |-> 0]

FNeg(a) == [n |-> -a.n, d |-> a.d]
FMul(a, b) == Norm(a.n * b.n, a.d * b.d)
FAdd(a, b) ==
    IF a.d = 0 /\ b.d = 0
    THEN (IF a.n = b.n THEN a ELSE NaN)
    ELSE Norm(a.n * b.d + b.n * a.d, a.d * b.d)
FSub(a, b) == FAdd(a, FNeg(b))
\* x / 0 is +-Inf, 0 / 0 is NaN; a computed zero is never -0 here, so the
\* sign of x / 0 is the sign of x.
FDiv(a, b) ==
    LET n == a.n * b.d
        d == a.d * b.n
    IN  IF d = 0
        THEN [n |-> Sign(n) * (IF b.n < 0 THEN -1 ELSE 1), d |-> 0]
        ELSE Norm(n, d)

\* cv::Point2f
Pt(x, y) == [x |-> x, y |-> y]

\* cv::Matx33f * cv::Point3f(x, y, 1.)
MatMulPoint(m, x, y) ==
    [x |-> FAdd(FAdd(FMul(m[1][1], x), FMul(m[1][2], y)), FMul(m[1][3], F(1))),
     y |-> FAdd(FAdd(FMul(m[2][1], x), FMul(m[2][2], y)), FMul(m[2][3], F(1))),
     z |-> FAdd(FAdd(FMul(m[3][1], x), FMul(m[3][2], y)), FMul(m[3][3], F(1)))]

IntMatrix(m) == [r \in 1..3 |-> [c \in 1..3 |-> F(m[r][c])]]

----------------------------------------------------------------------------
(* ccheckerSVG::Quad *)

\* No Quad object: before construction, and what the constructor leaves
\* behind when it ends the process instead of returning.
NoQuad == [xCoords |-> <<>>, yCoords |-> <<>>, built |-> FALSE]

\* Quad(points) with a guard that only rejects too few points
QuadCtor_atLeast4(points) ==
    IF Len(points) < 4
    THEN NoQuad
    ELSE [xCoords |-> [i \in 1..Len(points) |-> points[i].x] \o <<points[1].x>>,
          yCoords |-> [i \in 1..Len(points) |-> points[i].y] \o <<points[1].y>>,
          built |-> TRUE]

\* Quad(const std::vector<cv::Point2f>& points): the process exits with
\* EXIT_FAILURE (no object: NoQuad) when points.size() != 4; else the 4 points and points[0] again.
QuadCtor(points) ==
    IF Len(points) # 4
    THEN NoQuad
    ELSE [xCoords |-> [i \in 1..Len(points) |-> points[i].x] \o <<points[1].x>>,
          yCoords |-> [i \in 1..Len(points) |-> points[i].y] \o <<points[1].y>>,
          built |-> TRUE]

\* transform whose loop stops before the closing point
transform_first4(q, transformMatrix) ==
    LET p(i) == MatMulPoint(transformMatrix, q.xCoords[i], q.yCoords[i])
    IN  [q EXCEPT
            !.xCoords = [i \in 1..5 |-> IF i < 5 THEN FDiv(p(i).x, p(i).z) ELSE q.xCoords[i]],
            !.yCoords = [i \in 1..5 |-> IF i < 5 THEN FDiv(p(i).y, p(i).z) ELSE q.yCoords[i]]]

\* transform without the homogeneous normalisation
transform_noDivide(q, transformMatrix) ==
    LET p(i) == MatMulPoint(transformMatrix, q.xCoords[i], q.yCoords[i])
    IN  [q EXCEPT
            !.xCoords = [i \in 1..5 |-> p(i).x],
            !.yCoords = [i \in 1..5 |-> p(i).y]]

\* void Quad::transform(cv::Matx33f): the value of *this after the call.
\* Every one of the 5 stored points is overwritten by (p.x / p.z, p.y / p.z)
\* with p = transformMatrix * (x, y, 1); the division is a float division.
transform(q, transformMatrix) ==
    LET p(i) == MatMulPoint(transformMatrix, q.xCoords[i], q.yCoords[i])
    IN  [q EXCEPT
            !.xCoords = [i \in 1..5 |-> FDiv(p(i).x, p(i).z)],
            !.yCoords = [i \in 1..5 |-> FDiv(p(i).y, p(i).z)]]

----------------------------------------------------------------------------
(* Inputs the Quad operations are tried on *)

\* Points the constructor is tried on
QPointSet == {Pt(F(0), F(0)), Pt(F(1), F(0)), Pt(F(3), F(2))}

RECURSIVE SeqsUpTo(_, _)
SeqsUpTo(S, n) ==
    IF n = 0 THEN {<<>>}
    ELSE LET shorter == SeqsUpTo(S, n - 1)
         IN  shorter \cup {Append(s, e) : s \in {t \in shorter : Len(t) = n - 1}, e \in S}

\* Matrices transform is tried on: identity, an affine map, a uniform
\* weight of 2, and a projective map whose weight x - 1 vanishes on x = 1
QIdentity == IntMatrix(<<<<1, 0, 0>>, <<0, 1, 0>>, <<0, 0, 1>>>>)
QAffine == IntMatrix(<<<<2, 0, 1>>, <<0, 2, 0>>, <<0, 0, 1>>>>)
QHalf == IntMatrix(<<<<1, 0, 0>>, <<0, 1, 0>>, <<0, 0, 2>>>>)
QProjective == IntMatrix(<<<<1, 0, 0>>, <<0, 1, 0>>, <<1, 0, -1>>>>)
QMatrices == {QIdentity, QAffine, QHalf, QProjective}

----------------------------------------------------------------------------
(* Reference layout of the chart *)

Q(n, d) == Norm(n, d)

MACBETH_CCHART_CORNERS_POS ==
    << Pt(Q(0, 1), Q(0, 1)), Pt(Q(67, 4), Q(0, 1)), Pt(Q(67, 4), Q(45, 4)), Pt(Q(0, 1), Q(45, 4)) >>

MACBETH_CCHART_CELLS_POS_CENTER ==
    << Pt(Q(3, 2), Q(3, 2)),  Pt(Q(17, 4), Q(3, 2)),  Pt(Q(7, 1), Q(3, 2)),  Pt(Q(39, 4), Q(3, 2)),  Pt(Q(25, 2), Q(3, 2)),  Pt(Q(61, 4), Q(3, 2)),
       Pt(Q(3, 2), Q(17, 4)), Pt(Q(17, 4), Q(17, 4)), Pt(Q(7, 1), Q(17, 4)), Pt(Q(39, 4), Q(17, 4)), Pt(Q(25, 2), Q(17, 4)), Pt(Q(61, 4), Q(17, 4)),
       Pt(Q(3, 2), Q(7, 1)),  Pt(Q(17, 4), Q(7, 1)),  Pt(Q(7, 1), Q(7, 1)),  Pt(Q(39, 4), Q(7, 1)),  Pt(Q(25, 2), Q(7, 1)),  Pt(Q(61, 4), Q(7, 1)),
       Pt(Q(3, 2), Q(39, 4)), Pt(Q(17, 4), Q(39, 4)), Pt(Q(7, 1), Q(39, 4)), Pt(Q(39, 4), Q(39, 4)), Pt(Q(25, 2), Q(39, 4)), Pt(Q(61, 4), Q(39, 4)) >>

\* const float MACBETH_CCHART_CELLS_SIZE = 2.50f * .5f;
MACBETH_CCHART_CELLS_SIZE == FMul(Q(5, 2), Q(1, 2))

\* The 4 points of the initializer list Quad quad({...}) of one cell
CellRect(center) ==
    LET off == FMul(MACBETH_CCHART_CELLS_SIZE, Q(1, 2))
    IN  << Pt(FSub(center.x, off), FSub(center.y, off)),
           Pt(FAdd(center.x, off), FSub(center.y, off)),
           Pt(FAdd(center.x, off), FAdd(center.y, off)),
           Pt(FSub(center.x, off), FAdd(center.y, off)) >>

\* cv::getPerspectiveTransform(src, dst) for src an axis-aligned rectangle
\* with a corner at the origin (the reference corners) and dst a
\* quadrilateral no three corners of which are collinear: the homography
\* with m[3][3] = 1 that maps src[i] to dst[i], i.e. the solution of the
\* 8-unknown linear system of the 4 correspondences.
getPerspectiveTransform(src, dst) ==
    LET W == src[3].x
        H == src[3].y
        sx == FAdd(FSub(dst[1].x, dst[2].x), FSub(dst[3].x, dst[4].x))
        sy == FAdd(FSub(dst[1].y, dst[2].y), FSub(dst[3].y, dst[4].y))
        dx1 == FSub(dst[2].x, dst[3].x)
        dx2 == FSub(dst[4].x, dst[3].x)
        dy1 == FSub(dst[2].y, dst[3].y)
        dy2 == FSub(dst[4].y, dst[3].y)
        den == FSub(FMul(dx1, dy2), FMul(dy1, dx2))
        g == FDiv(FSub(FMul(sx, dy2), FMul(sy, dx2)), den)
        h == FDiv(FSub(FMul(dx1, sy), FMul(dy1, sx)), den)
        a == FAdd(FSub(dst[2].x, dst[1].x), FMul(g, dst[2].x))
        b == FAdd(FSub(dst[4].x, dst[1].x), FMul(h, dst[4].x))
        d == FAdd(FSub(dst[2].y, dst[1].y), FMul(g, dst[2].y))
        e == FAdd(FSub(dst[4].y, dst[1].y), FMul(h, dst[4].y))
    IN  << << FDiv(a, W), FDiv(b, H), dst[1].x >>,
           << FDiv(d, W), FDiv(e, H), dst[1].y >>,
           << FDiv(g, W), FDiv(h, H), F(1) >> >>

----------------------------------------------------------------------------
(* ccheckerSVG::draw *)

\* quadsToDraw with the chart's box pushed after the cells
BuildQuadsToDraw_boxLast(box) ==
    LET tMatrix == getPerspectiveTransform(MACBETH_CCHART_CORNERS_POS, box)
    IN  [k \in 1..Len(MACBETH_CCHART_CELLS_POS_CENTER) |->
            transform(QuadCtor(CellRect(MACBETH_CCHART_CELLS_POS_CENTER[k])), tMatrix)]
        \o << QuadCtor(box) >>

\* quadsToDraw at the end of the two push_back passes of draw, for a box
\* the Quad constructor accepts: the box first, then one transformed Quad
\* per reference cell center, in the order of the list.
BuildQuadsToDraw(box) ==
    LET tMatrix == getPerspectiveTransform(MACBETH_CCHART_CORNERS_POS, box)
    IN  << QuadCtor(box) >>
        \o [k \in 1..Len(MACBETH_CCHART_CELLS_POS_CENTER) |->
                transform(QuadCtor(CellRect(MACBETH_CCHART_CELLS_POS_CENTER[k])), tMatrix)]

\* The Quads of the cell loop as they are when transform is called on them
CellQuads == [k \in 1..Len(MACBETH_CCHART_CELLS_POS_CENTER) |->
                 QuadCtor(CellRect(MACBETH_CCHART_CELLS_POS_CENTER[k]))]

\* One polyline per Quad, in the order of quadsToDraw
SvgDocument(quads) == [exists |-> TRUE, polylines |-> quads]
NoFile == [exists |-> FALSE, polylines |-> <<>>]

\* void draw(checker, outputPath): st is the state of the process and of the
\* files; the result is that state after the call.  The constructor of the
\* box's Quad ends the process when the box has not 4 points.  outputPath is
\* outputFolder + "/" + imgDestStem + ".svg": the file is named by the stem
\* of the image, and a file of that name is replaced.
draw(checker, imgDestStem, st) ==
    IF ~QuadCtor(checker.box).built
    THEN [st EXCEPT !.exited = TRUE, !.logError = "InvalidBox"]
    ELSE [st EXCEPT !.svgFiles[imgDestStem] = SvgDocument(BuildQuadsToDraw(checker.box)),
                    !.refQuads = CellQuads]

----------------------------------------------------------------------------
(* Strings and paths *)

UpperCase == << "A", "B", "C", "D", "E", "F", "G", "H", "I", "J", "K", "L", "M",
               "N", "O", "P", "Q", "R", "S", "T", "U", "V", "W", "X", "Y", "Z" >>
LowerCase == << "a", "b", "c", "d", "e", "f", "g", "h", "i", "j", "k", "l", "m",
               "n", "o", "p", "q", "r", "s", "t", "u", "v", "w", "x", "y", "z" >>

\* std::tolower(c, std::locale()): the 26 upper-case letters are mapped,
\* every other character is kept
ToLowerChar(c) ==
    IF \E i \in 1..Len(UpperCase) : UpperCase[i] = c
    THEN LowerCase[CHOOSE i \in 1..Len(UpperCase) : UpperCase[i] = c]
    ELSE c

\* boost::to_lower_copy
to_lower_copy(str) == [i \in 1..Len(str) |-> ToLowerChar(str[i])]

\* Position of the last occurrence of c in str, 0 when there is none
RECURSIVE LastIndexOf(_, _)
LastIndexOf(str, c) ==
    IF str = <<>> THEN 0
    ELSE IF str[Len(str)] = c THEN Len(str)
    ELSE LastIndexOf(SubSeq(str, 1, Len(str) - 1), c)

\* filename_pos(str, str.size()) of Boost.Filesystem version 3: the number
\* of characters before the last element of the path. "//" is one element,
\* a trailing separator is an element of its own, and a path that starts
\* with "//" and has no later separator is one element (a network name).
filename_pos(str) ==
    IF Len(str) = 2 /\ str[1] = "/" /\ str[2] = "/" THEN 0
    ELSE IF Len(str) > 0 /\ str[Len(str)] = "/" THEN Len(str) - 1
    ELSE IF LastIndexOf(str, "/") = 0 \/ (LastIndexOf(str, "/") = 2 /\ str[1] = "/")
    THEN 0
    ELSE LastIndexOf(str, "/")

\* The number of characters before the leftmost separator of the run of
\* separators that holds the one after pos characters
RECURSIVE LeftmostSeparator(_, _)
LeftmostSeparator(str, pos) ==
    IF pos > 0 /\ str[pos] = "/" THEN LeftmostSeparator(str, pos - 1) ELSE pos

\* is_root_separator(str, pos) of Boost.Filesystem version 3, for a
\* separator after pos characters: it is the root directory "/" of the
\* path, alone or after a network name "//name"
is_root_separator(str, pos) ==
    IF LeftmostSeparator(str, pos) = 0 THEN TRUE
    ELSE IF LeftmostSeparator(str, pos) < 3 \/ str[1] # "/" \/ str[2] # "/" THEN FALSE
    ELSE \A k \in 3..LeftmostSeparator(str, pos) : str[k] # "/"

\* fs::path::filename() of Boost.Filesystem (version 3 of the library, the
\* one boost/filesystem.hpp gives): the last element of the path, which is
\* "." when the path ends with a separator that is not its root directory
PathFilename(path) ==
    IF /\ Len(path) > 0
       /\ filename_pos(path) > 0
       /\ path[filename_pos(path) + 1] = "/"
       /\ ~is_root_separator(path, filename_pos(path))
    THEN <<".">>
    ELSE SubSeq(path, filename_pos(path) + 1, Len(path))

\* fs::path::extension() of Boost.Filesystem (version 3 of the library, the
\* one boost/filesystem.hpp gives): from the last dot of the filename on,
\* empty when the filename has no dot or is "." or ".."
PathExtension(path) ==
    LET name == PathFilename(path)
        pos == LastIndexOf(name, ".")
    IN  IF name = <<".">> \/ name = <<".", ".">> \/ pos = 0
        THEN <<>>
        ELSE SubSeq(name, pos, Len(name))

\* fs::path::stem(): the filename without its extension
PathStem(path) ==
    LET name == PathFilename(path)
        pos == LastIndexOf(name, ".")
    IN  IF name = <<".">> \/ name = <<".", ".">> \/ pos = 0
        THEN name
        ELSE SubSeq(name, 1, pos - 1)

sfmSupportedExtensions == {<<".", "s", "f", "m">>, <<".", "a", "b", "c">>}

\* The test on the extension as written
IsSfmData_caseSensitive(expr) == PathExtension(expr) \in sfmSupportedExtensions

\* std::find(sfmSupportedExtensions..., inputExt) != end(), inputExt being
\* the lower-cased extension of inputExpression
IsSfmData(expr) == to_lower_copy(PathExtension(expr)) \in sfmSupportedExtensions

----------------------------------------------------------------------------
(* serializeColorMatrixToTextFile and detectColorChecker *)

\* Number of charts looked for in an image
nc == 1

\* Rows of CChecker::getChartsRGB() for a 24-patch chart: 3 per patch
ChartRows == 72

\* checker->getChartsRGB(): one row per patch and channel, the columns being
\* (pixel count, average, standard deviation, max, min); the values read by
\* the detector are stood for by a function of the chart's seed.
getChartsRGB(checker) ==
    [r \in 1..ChartRows |->
        << F(9), F((checker.seed * 37 + r * 11) % 256), F(0), F(255), F(0) >>]

\* chartsRGB.col(1).clone().reshape(3, chartsRGB.rows / 3), then /= 255.0:
\* a matrix of rows/3 rows, 1 column, 3 channels.
ExtractColorData(chartsRGB) ==
    [row \in 1..(Len(chartsRGB) \div 3) |->
        << [i \in 1..3 |-> FDiv(chartsRGB[3 * (row - 1) + i][2], F(255))] >>]

RECURSIVE Flatten(_)
Flatten(ss) == IF ss = <<>> THEN <<>> ELSE Head(ss) \o Flatten(Tail(ss))

\* The lines written for colorData: row by row, column by column, the 3
\* channels of each element.  A line holds the value printed with 17
\* significant digits; it is kept here as the value.
ColorLines(colorData) ==
    Flatten([row \in 1..Len(colorData) |->
                Flatten([col \in 1..Len(colorData[row]) |->
                            [i \in 1..3 |-> colorData[row][col][i]]])])

NoColorFile == [exists |-> FALSE, lines |-> <<>>]

\* serializeColorMatrixToTextFile: f.open(outputColorData) creates or
\* truncates the file; the result is its content after f.close().
serializeColorMatrixToTextFile(file, colorData) ==
    [exists |-> TRUE, lines |-> ColorLines(colorData)]

\* cv::imwrite(imgDestPath, imageBGR), reached when draw has returned
WriteJpg(imgDestStem, st) ==
    IF st.exited THEN st ELSE [st EXCEPT !.jpgFiles = @ \cup {imgDestStem}]

\* The colors of one checker: getChartsRGB, the extraction of the averages
\* and serializeColorMatrixToTextFile
WriteColors(checker, st) ==
    IF st.exited
    THEN st
    ELSE [st EXCEPT !.colorFile =
             serializeColorMatrixToTextFile(@, ExtractColorData(getChartsRGB(checker)))]

\* The body of the loop over detector->getListColorChecker() for one
\* checker: the debug output (draw may end the process), then the colors.
ProcessChecker(checker, imgDestStem, dbg, st) ==
    WriteColors(checker,
        IF dbg THEN WriteJpg(imgDestStem, draw(checker, imgDestStem, st)) ELSE st)

\* The loop over detector->getListColorChecker(), from the k-th checker on
RECURSIVE CheckerLoop(_, _, _, _, _)
CheckerLoop(checkers, k, imgDestStem, dbg, st) ==
    IF k > Len(checkers) \/ st.exited
    THEN st
    ELSE CheckerLoop(checkers, k + 1, imgDestStem, dbg,
             ProcessChecker(checkers[k], imgDestStem, dbg, st))

\* detectColorChecker that creates the output file before it runs the detector
detectColorChecker_openFirst(view, dbg, st) ==
    IF view.cols = 0 \/ view.rows = 0
    THEN [st EXCEPT !.exited = TRUE, !.logError = "EmptyImage"]
    ELSE CheckerLoop(view.checkers, 1, PathStem(view.imagePath), dbg,
             [st EXCEPT !.colorFile = [exists |-> TRUE, lines |-> <<>>]])

\* void detectColorChecker(imgPath, imgReadOptions, outputColorData, debug)
\* on the image of one view.  view.checkers is what the detector finds:
\* detector->process returns false when it is empty.  The debug files are
\* named by imgPath.stem().
detectColorChecker(view, dbg, st) ==
    IF view.cols = 0 \/ view.rows = 0
    THEN [st EXCEPT !.exited = TRUE, !.logError = "EmptyImage"]
    ELSE IF Len(view.checkers) = 0
         THEN st
         ELSE CheckerLoop(view.checkers, 1, PathStem(view.imagePath), dbg, st)

----------------------------------------------------------------------------
(* Spec: aliceVision_main *)

\* Detected boxes: the rectangle of an upright chart, a chart seen in
\* perspective, and two boxes that have not 4 corners
BoxRect == << Pt(F(10), F(10)), Pt(F(210), F(10)), Pt(F(210), F(150)), Pt(F(10), F(150)) >>
BoxPersp == << Pt(F(0), F(0)), Pt(F(8), F(0)), Pt(F(6), F(4)), Pt(F(2), F(4)) >>
Box3 == << Pt(F(0), F(0)), Pt(F(8), F(0)), Pt(F(6), F(4)) >>

Checkers == { [box |-> BoxRect, seed |-> 1], [box |-> BoxPersp, seed |-> 2],
              [box |-> Box3, seed |-> 3] }

\* view.getImagePath(): two images of the same stem in different folders,
\* and one of another stem
ImagePaths ==
    { <<"p", "/", "v", ".", "e">>, <<"q", "/", "v", ".", "e">>, <<"p", "/", "w", ".", "e">> }

ImageStems == { PathStem(path) : path \in ImagePaths }

\* A view: the path of its image, the size of the image and what the
\* detector finds in it (at most nc charts)
ViewKinds ==
    { [imagePath |-> <<"p", "/", "v", ".", "e">>, cols |-> 0, rows |-> 0, checkers |-> <<>>],
      [imagePath |-> <<"p", "/", "v", ".", "e">>, cols |-> 4, rows |-> 3, checkers |-> <<>>] }
    \cup { [imagePath |-> path, cols |-> 4, rows |-> 3, checkers |-> cs] :
              path \in ImagePaths, cs \in SeqsUpTo(Checkers, nc) \ {<<>>} }

InputExpressions ==
    { <<"a", ".", "s", "f", "m">>,
      <<"a", ".", "S", "f", "M">>,
      <<"a", ".", "A", "B", "C">>,
      <<"a", ".", "j", "p", "g">>,
      <<"d", ".", "s", "f", "m", "/", "a">>,
      <<"a", ".", "s", "f", "m", "/">>,
      <<"a", ".", "s", "f", "m", ".", "j", "p", "g">> }

QuadIdle ==
    /\ qInput = <<>> /\ quad = NoQuad /\ qExit = "none"
    /\ quadsToDraw = <<>> /\ qMatrix = QIdentity /\ nTransform = 0

Init ==
    /\ QuadIdle
    /\ pc = "start"
    /\ exitCode = "none"
    /\ logError = "none"
    /\ argsOutcome \in {"ok", "noArgs", "error"}
    /\ inputExpression \in InputExpressions
    /\ debug \in BOOLEAN
    /\ loadOk \in BOOLEAN
    \* the scene is only looked at after a command line that parses and a
    \* scene file that loads
    /\ views \in (IF argsOutcome = "ok" /\ loadOk
                  THEN SeqsUpTo(ViewKinds, MaxViews) ELSE {<<>>})
    /\ viewIdx = 0
    /\ colorFile = NoColorFile
    /\ svgFiles = [stem \in ImageStems |-> NoFile]
    /\ jpgFiles = {}
    /\ refQuads = <<>>

inputVars == <<argsOutcome, inputExpression, loadOk, debug, views>>
fileVars == <<colorFile, svgFiles, jpgFiles, refQuads>>

\* Parsing of the command line: with no argument the usage is printed and
\* the program ends with success; a missing or malformed option ends it
\* with failure.
ParseCommandLine ==
    /\ pc = "start"
    /\ CASE argsOutcome = "noArgs" ->
              /\ pc' = "done" /\ exitCode' = "EXIT_SUCCESS" /\ logError' = logError
         [] argsOutcome = "error" ->
              /\ pc' = "done" /\ exitCode' = "EXIT_FAILURE" /\ logError' = "Usage"
         [] OTHER ->
              /\ pc' = "resolve" /\ exitCode' = exitCode /\ logError' = logError
    /\ UNCHANGED <<inputVars, fileVars, viewIdx, quadVars>>

\* The test on the extension, and the loading of the scene
ResolveInput ==
    /\ pc = "resolve"
    /\ IF IsSfmData(inputExpression)
       THEN IF ~loadOk
            THEN /\ pc' = "done" /\ exitCode' = "EXIT_FAILURE"
                 /\ logError' = "CannotRead" /\ viewIdx' = viewIdx
            ELSE /\ pc' = "views" /\ viewIdx' = 1
                 /\ UNCHANGED <<exitCode, logError>>
       ELSE /\ pc' = "done" /\ exitCode' = "EXIT_SUCCESS"
            /\ UNCHANGED <<logError, viewIdx>>
    /\ UNCHANGED <<inputVars, fileVars, quadVars>>

\* One iteration of the loop over the views
ProcessView ==
    /\ pc = "views" /\ viewIdx <= Len(views)
    /\ \E r \in { detectColorChecker(views[viewIdx], debug,
                      [exited |-> FALSE, logError |-> logError, colorFile |-> colorFile,
                       svgFiles |-> svgFiles, jpgFiles |-> jpgFiles, refQuads |-> refQuads]) } :
           /\ colorFile' = r.colorFile
           /\ svgFiles' = r.svgFiles
           /\ jpgFiles' = r.jpgFiles
           /\ refQuads' = r.refQuads
           /\ logError' = r.logError
           /\ IF r.exited
              THEN /\ pc' = "done" /\ exitCode' = "EXIT_FAILURE" /\ viewIdx' = viewIdx
              ELSE /\ pc' = pc /\ exitCode' = exitCode /\ viewIdx' = viewIdx + 1
    /\ UNCHANGED <<inputVars, quadVars>>

\* The end of the loop: return EXIT_SUCCESS
Finish ==
    /\ pc = "views" /\ viewIdx > Len(views)
    /\ pc' = "done" /\ exitCode' = "EXIT_SUCCESS"
    /\ UNCHANGED <<logError, inputVars, fileVars, viewIdx, quadVars>>

Next == ParseCommandLine \/ ResolveInput \/ ProcessView \/ Finish

Spec == Init /\ [][Next]_vars

----------------------------------------------------------------------------
(* QuadSpec: one Quad object *)

ProgIdle ==
    /\ pc = "idle" /\ exitCode = "none" /\ logError = "none"
    /\ argsOutcome = "ok" /\ inputExpression = <<>> /\ loadOk = FALSE
    /\ debug = FALSE /\ views = <<>> /\ viewIdx = 0
    /\ colorFile = <<>> /\ svgFiles = <<>> /\ jpgFiles = {} /\ refQuads = <<>>

QuadInit ==
    /\ ProgIdle
    /\ qInput \in SeqsUpTo(QPointSet, MaxPoints)
    /\ quad = NoQuad
    /\ qExit = "none"
    /\ quadsToDraw = <<>>
    /\ qMatrix = QIdentity
    /\ nTransform = 0

\* Quad quad(points);
QConstruct ==
    /\ ~quad.built /\ qExit = "none"
    /\ LET r == QuadCtor(qInput)
       IN  IF ~r.built
           THEN /\ qExit' = "EXIT_FAILURE"
                /\ quad' = quad
           ELSE /\ quad' = r
                /\ qExit' = qExit
    /\ UNCHANGED <<progVars, qInput, quadsToDraw, qMatrix, nTransform>>

\* quad.transform(m);
QTransform ==
    /\ quad.built /\ nTransform < MaxTransform
    /\ \E m \in QMatrices :
        /\ quad' = transform(quad, m)
        /\ qMatrix' = m
    /\ nTransform' = nTransform + 1
    /\ UNCHANGED <<progVars, qInput, qExit, quadsToDraw>>

\* quadsToDraw.push_back(quad);
QPushBack ==
    /\ quad.built /\ Len(quadsToDraw) < MaxPush
    /\ quadsToDraw' = Append(quadsToDraw, quad)
    /\ UNCHANGED <<progVars, qInput, quad, qExit, qMatrix, nTransform>>

QuadNext == QConstruct \/ QTransform \/ QPushBack

QuadSpec == QuadInit /\ [][QuadNext]_vars

----------------------------------------------------------------------------
(* Properties of a run of the program (Spec) *)

\* The lines one checker's colors take in the output file
ExpectedBlock(checker) == ColorLines(ExtractColorData(getChartsRGB(checker)))

\* Every checker the detector finds over the whole scene, in iteration order
AllCheckers == Flatten([i \in 1..Len(views) |-> views[i].checkers])

LoopCompleted == pc = "done" /\ exitCode = "EXIT_SUCCESS" /\ viewIdx > Len(views)

\* C1: once a run over the scene has finished, the color-data file holds one
\* block of patch colors per detected chart, for every detected chart, not
\* only the colors of the chart written last.
C1_EveryChartInColorFile ==
    (LoopCompleted /\ Len(AllCheckers) >= 1) =>
        /\ colorFile.exists
        /\ Len(colorFile.lines) = ChartRows * Len(AllCheckers)
        /\ \A k \in 1..Len(AllCheckers) :
              \E b \in 0..(Len(AllCheckers) - 1) :
                  SubSeq(colorFile.lines, ChartRows * b + 1, ChartRows * (b + 1))
                      = ExpectedBlock(AllCheckers[k])

\* The overlay of view j cannot be built: debug output is on and the
\* detector reports a box that has not 4 corners.
OverlayFails(j) ==
    /\ debug
    /\ \E k \in 1..Len(views[j].checkers) : Len(views[j].checkers[k].box) # 4

\* C2: a failure while building one chart's overlay is a failure of that
\* chart only: the program does not terminate at that view because of it,
\* and the later views are still processed.
C2_OverlayFailureIsLocal ==
    \A j \in 1..Len(views) :
        (viewIdx = j /\ OverlayFails(j)) => pc # "done"

\* The k-th cell center of the reference layout counted row-major from the
\* top-left cell: 6 columns and 4 rows, 2.75 apart, the first at (1.5, 1.5)
RowMajorCenter(k) ==
    Pt(FAdd(Q(3, 2), FMul(Q(11, 4), F((k - 1) % 6))),
       FAdd(Q(3, 2), FMul(Q(11, 4), F((k - 1) \div 6))))

\* The closed polyline of 4 corners
ClosedPolyline(pts) ==
    [xCoords |-> << pts[1].x, pts[2].x, pts[3].x, pts[4].x, pts[1].x >>,
     yCoords |-> << pts[1].y, pts[2].y, pts[3].y, pts[4].y, pts[1].y >>,
     built |-> TRUE]

\* The image of a point under a homography, non-finite where the weight is 0
ImagePoint(m, x, y) ==
    [x |-> FDiv(MatMulPoint(m, x, y).x, MatMulPoint(m, x, y).z),
     y |-> FDiv(MatMulPoint(m, x, y).y, MatMulPoint(m, x, y).z)]

\* The overlay the claim expects for a detected box of 4 corners
ExpectedOverlay(box) ==
    << ClosedPolyline(box) >>
    \o [k \in 1..24 |->
           ClosedPolyline([c \in 1..4 |->
               ImagePoint(getPerspectiveTransform(MACBETH_CCHART_CORNERS_POS, box),
                          CellRect(RowMajorCenter(k))[c].x,
                          CellRect(RowMajorCenter(k))[c].y)])]

\* The expected overlay of every 4-corner box the detector can report
ExpectedOverlays ==
    [box \in { c.box : c \in { d \in Checkers : Len(d.box) = 4 } } |-> ExpectedOverlay(box)]

\* View i went through detectColorChecker with debug output and a chart was
\* found in it
OverlayDrawn(i) ==
    /\ debug /\ i < viewIdx
    /\ views[i].cols # 0 /\ views[i].rows # 0
    /\ Len(views[i].checkers) >= 1

\* View i is the last view whose overlay went to the file of its stem
LastDrawnOfStem(i) ==
    /\ OverlayDrawn(i)
    /\ \A j \in (i + 1)..Len(views) :
          OverlayDrawn(j) => PathStem(views[j].imagePath) # PathStem(views[i].imagePath)

\* C5: for a detected outer box of 4 points the overlay has exactly 25
\* Quads, drawn in this order: the outer box as detected (not transformed),
\* then the 24 transformed cells in the order of the reference cell-center
\* list, which is row-major from the top-left cell to the bottom-right one.
\* The overlay is read in the svg file of the image's stem, which holds the
\* overlay drawn last under that stem.
C5_OverlayOrder ==
    \A i \in 1..Len(views) :
        LastDrawnOfStem(i) =>
            /\ svgFiles[PathStem(views[i].imagePath)].exists
            /\ Len(svgFiles[PathStem(views[i].imagePath)].polylines) = 25
            /\ svgFiles[PathStem(views[i].imagePath)].polylines
                  = ExpectedOverlays[views[i].checkers[Len(views[i].checkers)].box]

C5_Witness ==
    /\ Len(views) = 2
    /\ LastDrawnOfStem(2)
    /\ OverlayDrawn(1)
    /\ views[1].checkers[1].box = BoxRect
    /\ views[2].checkers[1].box = BoxPersp
    /\ views[1].imagePath # views[2].imagePath
    /\ PathStem(views[1].imagePath) = PathStem(views[2].imagePath)
    /\ svgFiles[<<"v">>].polylines[1] = ClosedPolyline(BoxPersp)

\* C6: the reference rectangle handed to transform for the cell of center c
\* has the corners (c.x-h, c.y-h), (c.x+h, c.y-h), (c.x+h, c.y+h),
\* (c.x-h, c.y+h) with h = MACBETH_CCHART_CELLS_SIZE = 1.25, so that it is
\* 2h wide and 2h high.
C6_CellRectHalfSize ==
    \A k \in 1..Len(refQuads) :
        LET c == MACBETH_CCHART_CELLS_POS_CENTER[k]
            h == Q(5, 4)
        IN  /\ refQuads[k] = ClosedPolyline(<< Pt(FSub(c.x, h), FSub(c.y, h)),
                                               Pt(FAdd(c.x, h), FSub(c.y, h)),
                                               Pt(FAdd(c.x, h), FAdd(c.y, h)),
                                               Pt(FSub(c.x, h), FAdd(c.y, h)) >>)
            /\ FSub(refQuads[k].xCoords[2], refQuads[k].xCoords[1]) = FMul(F(2), h)
            /\ FSub(refQuads[k].yCoords[3], refQuads[k].yCoords[2]) = FMul(F(2), h)

\* The detector finds no chart in the non-empty image of the current view
NoChartInCurrentView ==
    /\ pc = "views" /\ viewIdx <= Len(views)
    /\ views[viewIdx].cols # 0 /\ views[viewIdx].rows # 0
    /\ views[viewIdx].checkers = <<>>

\* C9: when the detector finds no chart in a non-empty image, processing
\* that image writes nothing (the color-data file and the debug files stay
\* as they were) and returns normally; the iteration goes on with the next
\* view, and the loop only ends with success once every view was visited.
C9_NoChartWritesNothing ==
    [][ /\ NoChartInCurrentView =>
            /\ colorFile' = colorFile
            /\ svgFiles' = svgFiles
            /\ jpgFiles' = jpgFiles
            /\ exitCode' = "none"
            /\ pc' = "views"
            /\ viewIdx' = viewIdx + 1
        /\ (pc = "views" /\ exitCode' = "EXIT_SUCCESS") => viewIdx = Len(views) + 1
      ]_vars

C9_Witness ==
    /\ LoopCompleted
    /\ Len(views) = 2
    /\ Len(views[1].checkers) = 1
    /\ views[2].cols # 0 /\ views[2].checkers = <<>>
    /\ colorFile.exists

\* The input expressions whose lower-cased extension is .sfm or .abc
SfmExpressions ==
    { <<"a", ".", "s", "f", "m">>, <<"a", ".", "S", "f", "M">>, <<"a", ".", "A", "B", "C">> }

NothingWritten ==
    /\ ~colorFile.exists
    /\ \A stem \in DOMAIN svgFiles : ~svgFiles[stem].exists
    /\ jpgFiles = {}

\* C10: with a well-formed command line, an input whose lower-cased
\* extension is neither .sfm nor .abc makes the program run detection on no
\* image, write no file and exit with success; an input with one of these
\* extensions whose scene cannot be loaded makes it exit with failure
\* without processing any image.
C10_InputResolution ==
    /\ (argsOutcome = "ok" /\ inputExpression \notin SfmExpressions) =>
          /\ pc \in {"start", "resolve", "done"}
          /\ viewIdx = 0 /\ NothingWritten
          /\ pc = "done" => exitCode = "EXIT_SUCCESS"
    /\ (argsOutcome = "ok" /\ inputExpression \in SfmExpressions /\ ~loadOk) =>
          /\ pc \in {"start", "resolve", "done"}
          /\ viewIdx = 0 /\ NothingWritten
          /\ pc = "done" => exitCode = "EXIT_FAILURE"

C10_Witness ==
    /\ pc = "done" /\ argsOutcome = "ok"
    /\ inputExpression = <<"a", ".", "s", "f", "m", ".", "j", "p", "g">>
    /\ loadOk /\ Len(views) >= 1
    /\ exitCode = "EXIT_SUCCESS"

----------------------------------------------------------------------------
(* Properties of one Quad object (QuadSpec) *)

IsClosed(q) ==
    /\ Len(q.xCoords) = 5 /\ Len(q.yCoords) = 5
    /\ q.xCoords[5] = q.xCoords[1]
    /\ q.yCoords[5] = q.yCoords[1]

\* C3: a Quad built from 4 points has exactly 5 points, the first 4 being
\* the inputs in their order and the 5th the same as the 1st; length 5 and
\* point 4 = point 0 still hold after any number of transform calls (the 5th
\* point holds the same stored value as the 1st).
C3_QuadClosed ==
    /\ quad.built =>
          /\ IsClosed(quad)
          /\ nTransform = 0 =>
                \A i \in 1..4 : /\ quad.xCoords[i] = qInput[i].x
                                /\ quad.yCoords[i] = qInput[i].y
    /\ \A k \in 1..Len(quadsToDraw) : IsClosed(quadsToDraw[k])

C3_Witness ==
    /\ quad.built /\ nTransform >= 2
    /\ qMatrix = QAffine
    /\ quad.xCoords[1] # qInput[1].x
    /\ quad.xCoords[2] # quad.xCoords[1]

\* C4: building a Quad from a point list whose length is not 4 fails (the
\* error is logged and the process exits with EXIT_FAILURE) and yields no
\* Quad; no Quad with a point count other than 5 is ever produced.
C4_WrongCountFails ==
    /\ ((quad.built \/ qExit # "none") /\ Len(qInput) # 4) =>
          /\ qExit = "EXIT_FAILURE"
          /\ quad = NoQuad
          /\ quadsToDraw = <<>>
    /\ quad.built => Len(quad.xCoords) = 5 /\ Len(quad.yCoords) = 5
    /\ (qExit # "none") => Len(qInput) # 4

C4_Witness ==
    /\ Len(qInput) = 5
    /\ qExit = "EXIT_FAILURE"
    /\ quad = NoQuad

TransformStep == nTransform' = nTransform + 1

\* C7 as claimed: transform is pure, it yields a new Quad and leaves the
\* points of the Quad it was called on unchanged.
C7_TransformIsPure ==
    [][TransformStep => quad' = quad]_vars

\* C7 amended: transform works in place. It returns nothing and overwrites
\* each of the 5 points (x, y) of the Quad it is called on by
\* (x'/w', y'/w') with (x', y', w') = T (x, y, 1); copies of the Quad made
\* before the call (those already pushed into quadsToDraw) keep their points.
C7_TransformInPlace ==
    [][TransformStep =>
          /\ quadsToDraw' = quadsToDraw
          /\ Len(quad'.xCoords) = 5 /\ Len(quad'.yCoords) = 5
          /\ \A i \in 1..5 :
                /\ quad'.xCoords[i] = ImagePoint(qMatrix', quad.xCoords[i], quad.yCoords[i]).x
                /\ quad'.yCoords[i] = ImagePoint(qMatrix', quad.xCoords[i], quad.yCoords[i]).y
      ]_vars

C7_Witness ==
    /\ nTransform >= 1
    /\ qMatrix = QHalf
    /\ Len(quadsToDraw) >= 1
    /\ quadsToDraw[1] # quad
    /\ quadsToDraw[1] = ClosedPolyline(qInput)

\* C8: when the third homogeneous coordinate w' of T (x, y, 1) is 0 for one
\* of the 5 points of the Quad, transform fails (DivisionByZero) instead of
\* producing coordinates for that point.
C8_ZeroWeightFails ==
    [][(TransformStep /\ \E i \in 1..5 :
            MatMulPoint(qMatrix', quad.xCoords[i], quad.yCoords[i]).z = F(0))
        => (qExit' # "none" /\ quad' = quad)]_vars

====
